---- MODULE Spec2Model ----
(***************************************************************************)
(* Model of the candidate selection code of the newsletter pipeline,       *)
(* ContentFilter (src/src/processing/filter.py), and of its article        *)
(* index, VectorStore (src/src/embeddings/vectorstore.py).                 *)
(*                                                                         *)
(* Representation.                                                         *)
(*  - A title is a TLA+ string; lower(), split() and the substring test    *)
(*    `in` are computed character by character.                            *)
(*  - A dict key is a record field [k, ...]: k = "absent" is a missing     *)
(*    key, k = "none" a value of the wrong type (None), k = "str" a        *)
(*    string.                                                              *)
(*  - published_date is [k, age]: k = "naive" is an ISO-8601 string        *)
(*    without offset, k = "aware" one with a 'Z' suffix or an offset,      *)
(*    k = "malformed" a string fromisoformat rejects (ValueError),         *)
(*    k = "empty" the empty string, k = "illtyped" a truthy non-string.    *)
(*    age is datetime.now() minus the date, in hours.                      *)
(*  - content is [k, words, tech]: the length of content.split() and       *)
(*    whether "technical" or "algorithm" occurs in content.lower().        *)
(*  - Scores are in hundredths: 0.2 is 20, the threshold 0.75 is 75.       *)
(*    Two float sums that differ in the last bit only (0.2+0.3+0.2+0.2    *)
(*    and 0.2+0.2+0.2+0.3) are the same score here; no sum is within a    *)
(*    hundredth of the threshold.                                         *)
(*  - An exception is the value of the handler that catches it; raised   *)
(*    is TRUE when no handler caught it and it reached the caller.        *)
(*  - is_list is FALSE when the value the caller holds (the batch, or     *)
(*    what the last call returned) is None instead of a list; the         *)
(*    sequence variables are then empty.                                  *)
(***************************************************************************)
EXTENDS Integers, Sequences, FiniteSets, TLC

VARIABLES articles, pc, op, arg, filtered_articles, is_list, raised, score,
          index, metadata, current_id, index_file, metadata_file,
          sop, sarg, query, results, ops, issued,
          eop, eargs, similarity, similar,
          stage, dimension, summarized_articles, newsletter

filter_vars ==
    <<articles, pc, op, arg, filtered_articles, is_list, raised, score>>

store_vars ==
    <<index, metadata, current_id, index_file, metadata_file,
      sop, sarg, query, results, ops, issued>>

encoder_vars == <<eop, eargs, similarity, similar>>

run_vars == <<stage, dimension, summarized_articles, newsletter>>

vars == <<filter_vars, store_vars, encoder_vars, run_vars>>

----------------------------------------------------------------------------
(* Configuration: src/src/config/settings.py, filter.py *)

max_articles == 5

relevance_threshold == 75

max_age_days == 7

(* Largest number of freely chosen articles in an input batch. *)
MaxBatch == 3

(* Largest number of articles in a batch drawn from TitlePool. *)
MaxTitles == 4

(* Largest age, in half days, of the articles of ScorePool. *)
MaxHalfDays == 12

(* src/src/embeddings/vectorstore.py *)
vector_dimension == 384

default_k == 5

(* Largest number of articles in a batch for add_articles, and of calls
   made on the store. *)
MaxStoreBatch == 2

MaxOps == 3

(* src/src/embeddings/encoder.py *)
default_top_k == 5

(* Largest number of candidates given to find_similar_articles. *)
MaxCandidates == 3

(* Largest number of parsed articles a pipeline run starts from. *)
MaxRunBatch == 2

----------------------------------------------------------------------------
(* Strings *)

LowerChar(c) ==
    CASE c = "A" -> "a" [] c = "B" -> "b" [] c = "C" -> "c" [] c = "D" -> "d"
      [] c = "E" -> "e" [] c = "F" -> "f" [] c = "G" -> "g" [] c = "H" -> "h"
      [] c = "I" -> "i" [] c = "J" -> "j" [] c = "K" -> "k" [] c = "L" -> "l"
      [] c = "M" -> "m" [] c = "N" -> "n" [] c = "O" -> "o" [] c = "P" -> "p"
      [] c = "Q" -> "q" [] c = "R" -> "r" [] c = "S" -> "s" [] c = "T" -> "t"
      [] c = "U" -> "u" [] c = "V" -> "v" [] c = "W" -> "w" [] c = "X" -> "x"
      [] c = "Y" -> "y" [] c = "Z" -> "z" [] OTHER -> c

(* str.lower() *)
RECURSIVE lower(_)
lower(t) ==
    IF t = "" THEN ""
    ELSE LowerChar(SubSeq(t, 1, 1)) \o lower(SubSeq(t, 2, Len(t)))

(* sub in t *)
Contains(sub, t) ==
    \E i \in 1..(Len(t) - Len(sub) + 1) : SubSeq(t, i, i + Len(sub) - 1) = sub

(* set(t.split()): the set of maximal runs of non-blank characters of t;
   word is the run being read. *)
RECURSIVE split_words(_, _)
split_words(t, word) ==
    IF t = "" THEN (IF word = "" THEN {} ELSE {word})
    ELSE IF SubSeq(t, 1, 1) = " "
         THEN (IF word = "" THEN {} ELSE {word})
                  \cup split_words(SubSeq(t, 2, Len(t)), "")
         ELSE split_words(SubSeq(t, 2, Len(t)), word \o SubSeq(t, 1, 1))

----------------------------------------------------------------------------
(* Input articles *)

Str(s) == [k |-> "str", v |-> s]
AbsentKey == [k |-> "absent", v |-> ""]
NoneValue == [k |-> "none", v |-> ""]

(* 800 words naming an algorithm; 50 words that do; 50 words that do not *)
LongTechnical == [k |-> "str", words |-> 800, tech |-> TRUE]
ShortTechnical == [k |-> "str", words |-> 50, tech |-> TRUE]
ShortPlain == [k |-> "str", words |-> 50, tech |-> FALSE]

Naive(hours) == [k |-> "naive", age |-> hours]
Aware(hours) == [k |-> "aware", age |-> hours]
NoDate(kind) == [k |-> kind, age |-> 0]

Article(title, content, date, embedded) ==
    [title |-> title, url |-> AbsentKey, content |-> content,
     published_date |-> date, embedding |-> embedded, scored |-> FALSE,
     relevance_score |-> 0]

(* The article with the key 'url'. *)
At(url, a) == [a EXCEPT !.url = Str(url)]

(* The articles a batch is drawn from. *)
ArticlePool ==
    { Article(Str("AI Breakthrough 2024"), LongTechnical, Naive(0), TRUE),
      Article(Str("Ai breakthrough 2024!!"), LongTechnical, Naive(100), TRUE),
      Article(Str("ai breakthrough 2024"), LongTechnical, Naive(100), TRUE),
      Article(Str("AI agile innovation technology trends"), ShortPlain,
              Naive(144), TRUE),
      Article(Str("AI agile innovation technology trends today"),
              LongTechnical, Naive(0), TRUE),
      Article(Str("Machine learning in agile teams"), LongTechnical,
              Naive(240), TRUE),
      Article(Str("Deep learning for product management"), LongTechnical,
              Aware(240), TRUE),
      Article(Str("Weekly digest"), LongTechnical, Aware(0), TRUE),
      Article(Str("Mountain trails"), LongTechnical, NoDate("illtyped"), TRUE),
      Article(Str("Weekly digest"), LongTechnical, NoDate("malformed"), TRUE),
      Article(Str("Weekly digest"), LongTechnical, NoDate("absent"), TRUE),
      Article(AbsentKey, LongTechnical, Naive(0), TRUE),
      Article(NoneValue, LongTechnical, Naive(0), TRUE),
      Article(Str("Machine learning in agile teams"), LongTechnical,
              Naive(60), FALSE) }

(* Five recent, embedded articles with mutually different titles, scoring
   90, 100, 80, 90 and 80. *)
Digest ==
    << Article(Str("Deep learning for product management"), ShortTechnical,
               Naive(0), TRUE),
       Article(Str("Mountain trails"), LongTechnical, Naive(60), TRUE),
       Article(Str("Weekly digest"), LongTechnical, Naive(0), TRUE),
       Article(Str("Machine learning in agile teams"), ShortTechnical,
               Naive(0), TRUE),
       Article(Str("AI agile innovation technology trends"), ShortPlain,
               Naive(144), TRUE) >>

SeqsUpTo(S, n) == UNION {[1..m -> S] : m \in 0..n}

(* A batch is up to MaxBatch articles of the pool, alone or followed by
   the digest. *)
Batches ==
    {p \o tail : p \in SeqsUpTo(ArticlePool, MaxBatch), tail \in {<<>>, Digest}}

(* Recent, embedded, high-scoring articles that differ in their titles:
   four titles each one word longer than the one before (word-set
   similarities 4/5, 5/6 and 6/7 between neighbours), one title again in
   another case, an empty title and a missing title.  The shortest and the
   longest title (similarity 4/7) are of two articles at the same URL. *)
Titled(title) == Article(title, LongTechnical, Naive(0), TRUE)

TitlePool ==
    { At("https://a.example/1", Titled(Str("AI agile innovation technology"))),
      At("https://a.example/2",
         Titled(Str("AI agile innovation technology trends"))),
      Titled(Str("AI agile innovation technology trends today")),
      At("https://a.example/1",
         Titled(Str("AI agile innovation technology trends today weekly"))),
      Titled(Str("ai AGILE innovation technology trends")),
      Titled(Str("")),
      Titled(AbsentKey) }

TitleBatches == SeqsUpTo(TitlePool, MaxTitles)

(* Articles for _calculate_relevance_score: titles with four, one ("ai" in
   "mountain") and no keyword, empty, missing and ill-typed; contents
   around the word counts 500 and 2000, missing and ill-typed; dates of
   every kind, the parsable ones aged 0 to MaxHalfDays half days. *)
ScoreTitles ==
    { Str("AI agile innovation technology trends"), Str("Mountain trails"),
      Str("Weekly digest"), Str(""), AbsentKey, NoneValue }

ScoreContents ==
    [k : {"str"}, words : {0, 499, 500, 2000, 2001}, tech : BOOLEAN]
      \cup {[k |-> "absent", words |-> 0, tech |-> FALSE],
            [k |-> "none", words |-> 0, tech |-> FALSE]}

ScoreDates ==
    {NoDate(kind) : kind \in {"absent", "empty", "malformed", "illtyped"}}
      \cup {Naive(12 * h) : h \in 0..MaxHalfDays}
      \cup {Aware(12 * h) : h \in 0..MaxHalfDays}

ScorePool ==
    {Article(title, content, date, TRUE) :
        title \in ScoreTitles, content \in ScoreContents, date \in ScoreDates}

(* The parsed articles a pipeline run starts from: the two sample articles
   of tests/test_pipeline.py (a few plain words, dated 2023-01-01, more
   than a year before any run), the same two dated today, an article with
   a long technical content dated today, and one without 'content'. *)
FewWords == [k |-> "str", words |-> 5, tech |-> FALSE]
NoContent == [k |-> "absent", words |-> 0, tech |-> FALSE]

SampleArticle(title, url, date) ==
    At(url, Article(Str(title), FewWords, date, FALSE))

RunPool ==
    { SampleArticle("AI Advancement", "https://example.com/ai",
                    Naive(24 * 366)),
      SampleArticle("Product Management Tips", "https://example.com/pm",
                    Naive(24 * 366)),
      SampleArticle("AI Advancement", "https://example.com/ai", Naive(0)),
      SampleArticle("Product Management Tips", "https://example.com/pm",
                    Naive(0)),
      At("https://a.example/4",
         Article(Str("Deep learning for product management"), LongTechnical,
                 Naive(0), FALSE)),
      Article(Str("AI Advancement"), NoContent, Naive(0), FALSE) }

RunBatches == SeqsUpTo(RunPool, MaxRunBatch)

(* The title strings of the input articles, and str.lower(), the keyword
   term and the similarity tabulated over them (computed once). *)
TitleStrings ==
    {a.title.v : a \in ArticlePool \cup TitlePool \cup RunPool
                        \cup {Digest[i] : i \in DOMAIN Digest}}
      \cup {title.v : title \in ScoreTitles}

lower_of == [t \in TitleStrings |-> lower(t)]

LowerTitles == {lower_of[t] : t \in TitleStrings}

----------------------------------------------------------------------------
(* ContentFilter._calculate_similarity: the Jaccard ratio
   intersection / union as the pair <<numerator, denominator>>;
   0.0 is <<0, 1>>. *)
calculate_similarity(text1, text2) ==
    LET words1 == split_words(lower(text1), "")
        words2 == split_words(lower(text2), "")
        intersection == Cardinality(words1 \cap words2)
        union == Cardinality(words1 \cup words2)
    IN  IF union > 0 THEN <<intersection, union>> ELSE <<0, 1>>

similarity_of ==
    [t1 \in LowerTitles |-> [t2 \in LowerTitles |-> calculate_similarity(t1, t2)]]

(* The comparison written >= 0.8. *)
ExceedsDuplicateThresholdInclusive(ratio) == ratio[1] * 10 >= 8 * ratio[2]

(* ratio > 0.8 *)
ExceedsDuplicateThreshold(ratio) == ratio[1] * 10 > 8 * ratio[2]

----------------------------------------------------------------------------
(* ContentFilter._calculate_relevance_score *)

keywords ==
    <<"ai", "machine learning", "deep learning", "product management",
      "agile", "innovation", "technology">>

(* datetime.fromisoformat(pub_date_str.replace('Z', '+00:00')) and the use
   of its result next to the naive datetime.now(): "skip" when the value is
   falsy, "ValueError" for a string that is no ISO date, "raise" for an
   AttributeError (no str.replace) or a TypeError (offset-aware against
   offset-naive), "ok" otherwise. *)
ParseDate(d) ==
    CASE d.k \in {"absent", "empty"} -> "skip"
      [] d.k = "malformed" -> "ValueError"
      [] d.k \in {"illtyped", "aware"} -> "raise"
      [] OTHER -> "ok"

(* (datetime.now() - pub_date).days *)
days_old(d) == d.age \div 24

KeywordScore(title) ==
    20 * Cardinality({i \in DOMAIN keywords : Contains(keywords[i], title)})

keyword_score_of == [t \in LowerTitles |-> KeywordScore(t)]

LengthScore(content) ==
    IF content.k = "str" /\ 500 <= content.words /\ content.words <= 2000
    THEN 30 ELSE 0

TechnicalScore(content) ==
    IF content.k = "str" /\ content.tech THEN 20 ELSE 0

RecencyScore(d) ==
    IF ParseDate(d) = "ok"
    THEN (IF days_old(d) <= 2 THEN 30 ELSE IF days_old(d) <= 5 THEN 20 ELSE 0)
    ELSE 0

Min(a, b) == IF a <= b THEN a ELSE b

(* An AttributeError or a TypeError anywhere in the body is caught by the
   outer handler, which returns 0.0. *)
ScoreRaises(article) ==
    \/ article.title.k = "none"
    \/ article.content.k = "none"
    \/ ParseDate(article.published_date) = "raise"

(* The score returned without min(1.0, score). *)
calculate_relevance_score_unclamped(article) ==
    IF ScoreRaises(article) THEN 0
    ELSE LET title == lower_of[article.title.v]
         IN  keyword_score_of[title] + LengthScore(article.content)
               + TechnicalScore(article.content)
               + RecencyScore(article.published_date)

calculate_relevance_score(article) ==
    IF ScoreRaises(article) THEN 0
    ELSE LET title == lower_of[article.title.v]
         IN  Min(100, keyword_score_of[title] + LengthScore(article.content)
                        + TechnicalScore(article.content)
                        + RecencyScore(article.published_date))

----------------------------------------------------------------------------
(* The stages of ContentFilter *)

(* pub_date >= datetime.now() - timedelta(days=max_age_days) *)
WithinWindow(d) == d.age <= max_age_days * 24

(* ContentFilter.filter_by_date: an exception that is no ValueError leaves
   the loop and the outer handler returns the unfiltered argument. *)
filter_by_date(as) ==
    IF \E i \in DOMAIN as : ParseDate(as[i].published_date) = "raise"
    THEN as
    ELSE SelectSeq(as, LAMBDA a : /\ ParseDate(a.published_date) = "ok"
                                  /\ WithinWindow(a.published_date))

(* article["relevance_score"] = score *)
WithScore(a) ==
    [a EXCEPT !.scored = TRUE, !.relevance_score = calculate_relevance_score(a)]

(* A descending sort that is not stable: a is inserted before the
   elements whose score equals its own. *)
InsertByScoreUnstable(sorted, a) ==
    LET k == Cardinality({i \in DOMAIN sorted :
                            sorted[i].relevance_score > a.relevance_score})
    IN  SubSeq(sorted, 1, k) \o <<a>> \o SubSeq(sorted, k + 1, Len(sorted))

(* The sort without reverse=True: ascending, stable. *)
InsertByScoreAscending(sorted, a) ==
    LET k == Cardinality({i \in DOMAIN sorted :
                            sorted[i].relevance_score <= a.relevance_score})
    IN  SubSeq(sorted, 1, k) \o <<a>> \o SubSeq(sorted, k + 1, Len(sorted))

(* list.sort(key=relevance_score, reverse=True) is stable: a is inserted
   after every element whose score is at least its own. *)
InsertByScore(sorted, a) ==
    LET k == Cardinality({i \in DOMAIN sorted :
                            sorted[i].relevance_score >= a.relevance_score})
    IN  SubSeq(sorted, 1, k) \o <<a>> \o SubSeq(sorted, k + 1, Len(sorted))

(* The accepted articles left in the order of the loop. *)
sort_by_score_omitted(as) == as

RECURSIVE sort_by_score(_)
sort_by_score(as) ==
    IF as = <<>> THEN <<>>
    ELSE InsertByScore(sort_by_score(SubSeq(as, 1, Len(as) - 1)), as[Len(as)])

(* The loop of filter_by_relevance, before the sort: articles without an
   embedding are not scored, the accepted ones carry their score. *)
relevant_articles(as) ==
    LET accepted == SelectSeq(as, LAMBDA a :
                        /\ a.embedding
                        /\ calculate_relevance_score(a) >= relevance_threshold)
    IN  [i \in DOMAIN accepted |-> WithScore(accepted[i])]

(* ContentFilter.filter_by_relevance *)
filter_by_relevance(as) == sort_by_score(relevant_articles(as))

(* article.get("title", "").lower(); defined for string and absent titles *)
TitleOf(a) == lower_of[a.title.v]

(* The loop body with unique_articles.insert(0, article). *)
DuplicateStepPrepending(st, a) ==
    LET title == lower_of[a.title.v]
    IN  IF title \in st.seen_titles \/ title = "" THEN st
        ELSE IF \E seen_title \in st.seen_titles :
                   similarity_of[title][seen_title][1] * 10
                     > 8 * similarity_of[title][seen_title][2]
             THEN st
             ELSE [unique_articles |-> <<a>> \o st.unique_articles,
                   seen_titles |-> st.seen_titles \cup {title}]

(* The loop body of filter_duplicates for article a; st is
   [unique_articles, seen_titles]. *)
DuplicateStep(st, a) ==
    LET title == TitleOf(a)
        url == IF a.url.k = "absent" THEN "" ELSE a.url.v
    IN  IF title \in st.seen_titles \/ title = "" THEN st
        ELSE IF \E seen_title \in st.seen_titles :
                   ExceedsDuplicateThreshold(similarity_of[title][seen_title])
             THEN st
             ELSE [unique_articles |-> Append(st.unique_articles, a),
                   seen_titles |-> st.seen_titles \cup {title}]

RECURSIVE duplicate_loop(_)
duplicate_loop(as) ==
    IF as = <<>> THEN [unique_articles |-> <<>>, seen_titles |-> {}]
    ELSE DuplicateStep(duplicate_loop(SubSeq(as, 1, Len(as) - 1)), as[Len(as)])

(* The loop run over articles[1:]. *)
filter_duplicates_from_second(as) ==
    IF \E i \in DOMAIN as : as[i].title.k = "none"
    THEN as
    ELSE duplicate_loop(SubSeq(as, 2, Len(as))).unique_articles

(* ContentFilter.filter_duplicates: a title that is no string raises an
   AttributeError at .lower() and the handler returns the argument. *)
filter_duplicates(as) ==
    IF \E i \in DOMAIN as : as[i].title.k = "none"
    THEN as
    ELSE duplicate_loop(as).unique_articles

(* limit_articles without the slice. *)
limit_articles_uncut(as) == as

(* ContentFilter.limit_articles: articles[:self.max_articles] *)
limit_articles(as) == SubSeq(as, 1, Min(max_articles, Len(as)))

----------------------------------------------------------------------------
(* VectorStore (src/src/embeddings/vectorstore.py) and the AnnoyIndex it
   holds.

   A vector is [k, len, dir]: k = "absent" is a missing 'embedding' key,
   len the number of components and dir its direction, in quarter turns
   within one plane.  The index is [items, built, loaded]: the vectors by
   id, whether build() has run and whether the index is the image of a
   file.  AnnoyIndex refuses add_item and build on a loaded index and build
   on a built one, and its save() ends by loading the file written.  The
   metadata table is a function from keys [k, id] to records: k = "int"
   is the key current_id, k = "str" the key json.load gives back.  A file
   is [exists, ok, items] or [exists, ok, entries]; ok is FALSE when its
   content can no longer be read back (AnnoyIndex.load or json.load
   raises).  Distances and similarities are in thousandths. *)

Vec(len, dir) == [k |-> "vec", len |-> len, dir |-> dir]
NoEmbedding == [k |-> "absent", len |-> 0, dir |-> 0]

StoreArticle(title, url, vector) ==
    [title |-> title, url |-> url, content |-> Str("text"),
     published_date |-> AbsentKey, source |-> Str("feed"),
     embedding |-> vector]

(* The articles a batch for add_articles is drawn from: two with
   embeddings of the index's dimension, one with a shorter embedding, one
   with none. *)
StorePool ==
    { StoreArticle(Str("AI Breakthrough 2024"), Str("https://a.example/1"),
                   Vec(vector_dimension, 0)),
      StoreArticle(Str("Weekly digest"), AbsentKey, Vec(vector_dimension, 1)),
      StoreArticle(Str("Mountain trails"), Str("https://a.example/3"),
                   Vec(vector_dimension - 1, 2)),
      StoreArticle(Str("Deep learning for product management"),
                   Str("https://a.example/4"), NoEmbedding) }

StoreBatches == SeqsUpTo(StorePool, MaxStoreBatch)

(* The query vectors of search: two directions and one vector of the
   wrong length; k is 1 or the default. *)
Queries ==
    [vec : {Vec(vector_dimension, 0), Vec(vector_dimension, 1),
            Vec(vector_dimension - 1, 0)},
     k : {1, default_k}]

(* article.get(key, "") *)
Get(field) == IF field.k = "absent" THEN "" ELSE field.v

(* The record stored at self.metadata[self.current_id]. *)
MetadataOf(article) ==
    [title |-> Get(article.title), url |-> Get(article.url),
     content |-> Get(article.content),
     published_date |-> Get(article.published_date),
     source |-> Get(article.source)]

IntKey(id) == [k |-> "int", id |-> id]
StrKey(id) == [k |-> "str", id |-> id]

EmptyIndex == [items |-> <<>>, built |-> FALSE, loaded |-> FALSE]
EmptyMetadata == <<>>
NoIndexFile == [exists |-> FALSE, ok |-> TRUE, items |-> <<>>]
NoMetadataFile == [exists |-> FALSE, ok |-> TRUE, entries |-> EmptyMetadata]

(* AnnoyIndex.add_item(i, vector) raises on a loaded index and for a
   vector that has not the index's length. *)
AddItemRaises(idx, vector) ==
    idx.loaded \/ vector.len # vector_dimension

(* The items are kept by id, 0 first: item i is items[i + 1]; the ids
   below i that were never added are zero vectors (dir = -1). *)
AddItem(idx, i, vector) ==
    LET n == IF i + 1 > Len(idx.items) THEN i + 1 ELSE Len(idx.items)
    IN  [idx EXCEPT !.items = [j \in 1..n |->
                                 IF j = i + 1 THEN vector
                                 ELSE IF j <= Len(idx.items) THEN idx.items[j]
                                 ELSE Vec(vector_dimension, -1)]]

(* The loop of add_articles over the batch: st is [index, metadata,
   current_id, failed]; after an exception nothing more is done. *)
AddStepRecordingFirst(st, article) ==
    IF st.failed \/ article.embedding.k = "absent" THEN st
    ELSE [index |-> IF AddItemRaises(st.index, article.embedding)
                    THEN st.index
                    ELSE AddItem(st.index, st.current_id, article.embedding),
          metadata |-> [key \in DOMAIN st.metadata \cup {IntKey(st.current_id)} |->
                          IF key = IntKey(st.current_id)
                          THEN MetadataOf(article) ELSE st.metadata[key]],
          current_id |-> st.current_id + 1,
          failed |-> AddItemRaises(st.index, article.embedding)]

(* The loop body counting the articles without embedding as well. *)
AddStepCountingSkipped(st, article) ==
    IF st.failed THEN st
    ELSE IF article.embedding.k = "absent"
    THEN [st EXCEPT !.current_id = st.current_id + 1]
    ELSE IF AddItemRaises(st.index, article.embedding)
    THEN [st EXCEPT !.failed = TRUE]
    ELSE [index |-> AddItem(st.index, st.current_id, article.embedding),
          metadata |-> [key \in DOMAIN st.metadata \cup {IntKey(st.current_id)} |->
                          IF key = IntKey(st.current_id)
                          THEN MetadataOf(article) ELSE st.metadata[key]],
          current_id |-> st.current_id + 1,
          failed |-> FALSE]

AddStep(st, article) ==
    IF st.failed \/ article.embedding.k = "absent" THEN st
    ELSE IF AddItemRaises(st.index, article.embedding)
    THEN [st EXCEPT !.failed = TRUE]
    ELSE [index |-> AddItem(st.index, st.current_id, article.embedding),
          metadata |-> [key \in DOMAIN st.metadata \cup {IntKey(st.current_id)} |->
                          IF key = IntKey(st.current_id)
                          THEN MetadataOf(article) ELSE st.metadata[key]],
          current_id |-> st.current_id + 1,
          failed |-> FALSE]

RECURSIVE AddLoop(_, _)
AddLoop(st, batch) ==
    IF batch = <<>> THEN st
    ELSE AddLoop(AddStep(st, Head(batch)), Tail(batch))

(* AnnoyIndex.build raises on a loaded and on a built index. *)
BuildRaises(idx) == idx.loaded \/ idx.built

(* json.dump writes every key as a string. *)
JsonDump(table) ==
    [key \in {StrKey(k.id) : k \in DOMAIN table} |->
       IF StrKey(key.id) \in DOMAIN table THEN table[StrKey(key.id)]
       ELSE table[IntKey(key.id)]]

(* VectorStore.save on st = [index, metadata, index_file, metadata_file]:
   AnnoyIndex.save raises on an index that is not built, before anything
   is written; otherwise the index is written and loaded back, then the
   metadata is written. *)
Save(st) ==
    IF ~ st.index.built THEN st
    ELSE [st EXCEPT !.index.loaded = TRUE,
                    !.index_file = [exists |-> TRUE, ok |-> TRUE,
                                    items |-> st.index.items],
                    !.metadata_file = [exists |-> TRUE, ok |-> TRUE,
                                       entries |-> JsonDump(st.metadata)]]

MaxId(table) ==
    CHOOSE m \in {key.id : key \in DOMAIN table} :
        \A key \in DOMAIN table : key.id <= m

(* VectorStore.load on st = [index, metadata, current_id]: a missing or
   unreadable file raises and ends the method, after the index was loaded
   when it is the metadata file; current_id is set when the table read is
   not empty. *)
Load(st, ifile, mfile) ==
    IF ~ ifile.exists \/ ~ ifile.ok THEN st
    ELSE LET loaded == [items |-> ifile.items, built |-> TRUE, loaded |-> TRUE]
         IN  IF ~ mfile.exists \/ ~ mfile.ok THEN [st EXCEPT !.index = loaded]
             ELSE [index |-> loaded,
                   metadata |-> mfile.entries,
                   current_id |-> IF DOMAIN mfile.entries # {}
                                  THEN MaxId(mfile.entries) + 1
                                  ELSE st.current_id]

(* The angular distance of Annoy, sqrt(2 - 2 cos), between two directions
   a quarter turn apart or opposite; 2 when one vector is zero. *)
Distance(u, v) ==
    LET turn == (u.dir - v.dir + 4) % 4
    IN  CASE u.dir = -1 \/ v.dir = -1 -> 2000
          [] turn = 0 -> 0 [] turn = 2 -> 2000 [] OTHER -> 1414

(* AnnoyIndex.get_nns_by_vector(query, k, include_distances=True) on a
   built index: the k nearest ids with their distances, nearest first, the
   smaller id first among equally distant ones; an index that is not built
   has no tree to search and gives nothing. *)
RECURSIVE Nearest(_, _, _, _)
Nearest(idx, ids, vector, k) ==
    IF k = 0 \/ ids = {} THEN <<>>
    ELSE LET best == CHOOSE i \in ids : \A j \in ids :
                        \/ Distance(idx.items[i + 1], vector)
                             < Distance(idx.items[j + 1], vector)
                        \/ /\ Distance(idx.items[i + 1], vector)
                                = Distance(idx.items[j + 1], vector)
                           /\ i <= j
         IN  <<[id |-> best, dist |-> Distance(idx.items[best + 1], vector)]>>
               \o Nearest(idx, ids \ {best}, vector, k - 1)

get_nns_by_vector(idx, vector, k) ==
    IF ~ idx.built THEN <<>>
    ELSE Nearest(idx, {i - 1 : i \in DOMAIN idx.items}, vector, k)

(* The similarity taken as 1 - distance. *)
ResultNotHalved(record, dist) ==
    [metadata |-> record, similarity |-> 1000 - dist]

(* A result of search: the metadata record and its similarity. *)
Result(record, dist) == [metadata |-> record, similarity |-> 1000 - dist \div 2]

(* VectorStore.search: a query of the wrong length raises in
   get_nns_by_vector and the handler returns []; idx in self.metadata
   holds for an int key only. *)
search(idx, table, q) ==
    IF q.vec.len # vector_dimension THEN <<>>
    ELSE LET nns == get_nns_by_vector(idx, q.vec, q.k)
             found == SelectSeq(nns, LAMBDA n : IntKey(n.id) \in DOMAIN table)
         IN  [i \in DOMAIN found |->
                Result(table[IntKey(found[i].id)], found[i].dist)]

----------------------------------------------------------------------------
(* TextEncoder (src/src/embeddings/encoder.py): compute_similarity and
   find_similar_articles.  An embedding is a vector as above; dir = -1 is
   the zero vector encode_text returns when the model fails.  A float is
   [nan, v]: v in thousandths, nan = TRUE for the NaN numpy gives for
   0.0 / 0.0 (a warning, no exception). *)

Float(v) == [nan |-> FALSE, v |-> v]
NaN == [nan |-> TRUE, v |-> 0]

(* The vectors given to compute_similarity: three directions, the zero
   vector and a vector of another shape. *)
Embeddings ==
    { Vec(vector_dimension, 0), Vec(vector_dimension, 1),
      Vec(vector_dimension, 2), Vec(vector_dimension, -1),
      Vec(vector_dimension - 1, 0) }

(* TextEncoder.compute_similarity: np.dot raises a ValueError for vectors
   of different shapes and the handler returns 0.0; a zero norm makes the
   quotient 0.0 / 0.0; otherwise the cosine of the angle. *)
compute_similarity(embedding1, embedding2) ==
    IF embedding1.len # embedding2.len THEN Float(0)
    ELSE IF embedding1.dir = -1 \/ embedding2.dir = -1 THEN NaN
    ELSE LET turn == (embedding1.dir - embedding2.dir + 4) % 4
         IN  CASE turn = 0 -> Float(1000) [] turn = 2 -> Float(-1000)
               [] OTHER -> Float(0)

Candidate(title, vector) == [title |-> title, embedding |-> vector]

(* The candidates of find_similar_articles: two with the same embedding,
   two in other directions, one with the zero vector, one with a vector
   of another shape, one without embedding. *)
CandidatePool ==
    { Candidate("a", Vec(vector_dimension, 0)),
      Candidate("b", Vec(vector_dimension, 0)),
      Candidate("c", Vec(vector_dimension, 1)),
      Candidate("d", Vec(vector_dimension, 2)),
      Candidate("z", Vec(vector_dimension, -1)),
      Candidate("w", Vec(vector_dimension - 1, 0)),
      Candidate("n", NoEmbedding) }

(* x < y on floats: False when one of them is NaN. *)
IsLess(x, y) == ~ x.nan /\ ~ y.nan /\ x.v < y.v

Reverse(s) == [i \in DOMAIN s |-> s[Len(s) + 1 - i]]

(* list.sort on a list of fewer than 64 (similarity, article) pairs, as
   CPython does it: the initial run is found (count_run) and reversed when
   it is strictly descending, the other elements are inserted by binary
   search (binarysort); with reverse=True the list is reversed before and
   after.  a[i].key is the key of element i. *)
RECURSIVE RunEnd(_, _, _)
RunEnd(a, i, descending) ==
    IF i = Len(a) THEN i
    ELSE IF IsLess(a[i + 1].key, a[i].key) = descending
         THEN RunEnd(a, i + 1, descending)
         ELSE i

count_run(a) ==
    IF Len(a) <= 1 THEN [n |-> Len(a), descending |-> FALSE]
    ELSE LET descending == IsLess(a[2].key, a[1].key)
         IN  [n |-> RunEnd(a, 2, descending), descending |-> descending]

(* The position, counted from 0, where pivot goes in a[l+1 .. r]. *)
RECURSIVE BinarySearch(_, _, _, _)
BinarySearch(a, pivot, l, r) ==
    IF l >= r THEN l
    ELSE LET p == l + (r - l) \div 2
         IN  IF IsLess(pivot.key, a[p + 1].key)
             THEN BinarySearch(a, pivot, l, p)
             ELSE BinarySearch(a, pivot, p + 1, r)

(* a[1 .. start] is sorted; the elements after it are inserted in turn. *)
RECURSIVE binarysort(_, _)
binarysort(a, start) ==
    IF start >= Len(a) THEN a
    ELSE LET pivot == a[start + 1]
             l == BinarySearch(a, pivot, 0, start)
             moved == [i \in DOMAIN a |->
                         IF i <= l THEN a[i]
                         ELSE IF i = l + 1 THEN pivot
                         ELSE IF i <= start + 1 THEN a[i - 1]
                         ELSE a[i]]
         IN  binarysort(moved, start + 1)

(* similarities.sort(reverse=True, key=lambda x: x[0]) *)
sort_reverse(a) ==
    LET r == Reverse(a)
        run == count_run(r)
        prepared == IF run.descending
                    THEN Reverse(SubSeq(r, 1, run.n))
                           \o SubSeq(r, run.n + 1, Len(r))
                    ELSE r
    IN  Reverse(binarysort(prepared, run.n))

(* TextEncoder.find_similar_articles *)
find_similar_articles(query_embedding, candidates, top_k) ==
    LET embedded == SelectSeq(candidates, LAMBDA c : c.embedding.k # "absent")
        similarities ==
            [i \in DOMAIN embedded |->
               [key |-> compute_similarity(query_embedding, embedded[i].embedding),
                article |-> embedded[i]]]
        sorted == sort_reverse(similarities)
    IN  [i \in 1..Min(top_k, Len(sorted)) |-> sorted[i].article]

NoArguments ==
    [embedding1 |-> NoEmbedding, embedding2 |-> NoEmbedding,
     articles |-> <<>>, top_k |-> 0]

(* No method of the encoder has been called. *)
EncoderIdle ==
    /\ eop = "none"
    /\ eargs = NoArguments
    /\ similarity = Float(0)
    /\ similar = <<>>

----------------------------------------------------------------------------
(* The state machine of a process that holds one VectorStore at a time over
   the two files of VECTOR_DB_PATH: it constructs a store (again, after
   the first), adds batches, searches, saves, loads and clears.  sop is
   the last method called, sarg the batch it was given, query the query of
   a search and results what search returned; ops counts the calls.
   issued is the history of the ids given out: the pairs of an id and the
   entry recorded under it. *)

NoQuery == [vec |-> NoEmbedding, k |-> 0]

NoNewsletter == [content |-> FALSE, metadata |-> FALSE, article_count |-> 0]

(* No step of a pipeline run has been made. *)
RunIdle ==
    /\ stage = "none"
    /\ dimension = vector_dimension
    /\ summarized_articles = <<>>
    /\ newsletter = NoNewsletter

(* A store constructed over an empty directory and not used yet. *)
StoreFresh ==
    /\ index = EmptyIndex
    /\ metadata = EmptyMetadata
    /\ current_id = 0
    /\ index_file = NoIndexFile
    /\ metadata_file = NoMetadataFile
    /\ sop = "init"
    /\ sarg = <<>>
    /\ query = NoQuery
    /\ results = <<>>
    /\ ops = 0
    /\ issued = {}
    /\ EncoderIdle
    /\ RunIdle

----------------------------------------------------------------------------
(* The state machine.  A caller holds the batch `articles`.  It either
   calls filter_articles, whose four stages run in sequence (pc is the
   stage to run next), or calls the stages itself, each on the list the
   previous call returned.  op is the stage that ran last, arg the list it
   was given and filtered_articles the list it returned. *)

Init ==
    /\ \/ is_list = TRUE /\ articles \in Batches
       \/ is_list = FALSE /\ articles = <<>>
    /\ pc = "idle"
    /\ op = "none"
    /\ arg = <<>>
    /\ filtered_articles = articles
    /\ raised = FALSE
    /\ score = 0
    /\ StoreFresh

(* filter_articles, line 19: filtered_articles = articles *)
filter_articles_begin ==
    /\ pc = "idle"
    /\ op = "none"
    /\ pc' = "by_date"
    /\ UNCHANGED <<articles, op, arg, filtered_articles, is_list, raised, score,
                   store_vars, encoder_vars, run_vars>>

(* A stage is called by filter_articles at its turn, or by the caller on
   the batch or on the result of its own previous call.  The three filters
   iterate over their argument inside their try block: for None the
   TypeError is caught and the argument returned. *)
filter_by_date_call ==
    /\ \/ pc = "by_date"
       \/ pc = "idle" /\ op \in {"none", "filter_by_date"}
    /\ op' = "filter_by_date"
    /\ arg' = filtered_articles
    /\ ~ raised
    /\ filtered_articles' = IF is_list THEN filter_by_date(filtered_articles)
                                     ELSE filtered_articles
    /\ pc' = IF pc = "idle" THEN "idle" ELSE "by_relevance"
    /\ UNCHANGED <<articles, is_list, raised, score, store_vars, encoder_vars, run_vars>>

filter_by_relevance_call ==
    /\ \/ pc = "by_relevance"
       \/ pc = "idle" /\ op \in {"none", "filter_by_relevance"}
    /\ op' = "filter_by_relevance"
    /\ arg' = filtered_articles
    /\ ~ raised
    /\ filtered_articles' = IF is_list THEN filter_by_relevance(filtered_articles)
                                     ELSE filtered_articles
    /\ pc' = IF pc = "idle" THEN "idle" ELSE "duplicates"
    /\ UNCHANGED <<articles, is_list, raised, score, store_vars, encoder_vars, run_vars>>

(* Duplicate suppression run on the first max_articles articles only. *)
filter_duplicates_call_on_cut ==
    /\ \/ pc = "duplicates"
       \/ pc = "idle" /\ op \in {"none", "filter_duplicates"}
    /\ op' = "filter_duplicates"
    /\ arg' = filtered_articles
    /\ ~ raised
    /\ filtered_articles' =
         IF is_list
         THEN filter_duplicates(SubSeq(filtered_articles, 1,
                                       Min(max_articles, Len(filtered_articles))))
         ELSE filtered_articles
    /\ pc' = IF pc = "idle" THEN "idle" ELSE "limit"
    /\ UNCHANGED <<articles, is_list, raised, score, store_vars, encoder_vars, run_vars>>

filter_duplicates_call ==
    /\ \/ pc = "duplicates"
       \/ pc = "idle" /\ op \in {"none", "filter_duplicates"}
    /\ op' = "filter_duplicates"
    /\ arg' = filtered_articles
    /\ ~ raised
    /\ filtered_articles' = IF is_list THEN filter_duplicates(filtered_articles)
                                     ELSE filtered_articles
    /\ pc' = IF pc = "idle" THEN "idle" ELSE "limit"
    /\ UNCHANGED <<articles, is_list, raised, score, store_vars, encoder_vars, run_vars>>

(* limit_articles and, inside filter_articles, the return of its result.
   limit_articles has no handler: slicing None raises a TypeError, which
   the handler of filter_articles turns into [] and which reaches the
   caller of limit_articles otherwise. *)
limit_articles_call ==
    /\ \/ pc = "limit"
       \/ pc = "idle" /\ op \in {"none", "limit_articles"}
    /\ ~ raised
    /\ op' = "limit_articles"
    /\ arg' = filtered_articles
    /\ IF is_list
       THEN /\ filtered_articles' = limit_articles(filtered_articles)
            /\ pc' = IF pc = "idle" THEN "idle" ELSE "returned"
            /\ UNCHANGED <<is_list, raised>>
       ELSE IF pc = "limit"
       THEN /\ filtered_articles' = <<>>
            /\ is_list' = TRUE
            /\ pc' = "returned"
            /\ UNCHANGED raised
       ELSE /\ raised' = TRUE
            /\ UNCHANGED <<filtered_articles, is_list, pc>>
    /\ UNCHANGED <<articles, score, store_vars, encoder_vars, run_vars>>

Next ==
    \/ filter_articles_begin
    \/ filter_by_date_call
    \/ filter_by_relevance_call
    \/ filter_duplicates_call
    \/ limit_articles_call

Spec == Init /\ [][Next]_vars

(* The same caller with a batch of articles that differ in their titles. *)
InitTitles ==
    /\ articles \in TitleBatches
    /\ is_list = TRUE
    /\ pc = "idle"
    /\ op = "none"
    /\ arg = <<>>
    /\ filtered_articles = articles
    /\ raised = FALSE
    /\ score = 0
    /\ StoreFresh

SpecTitles == InitTitles /\ [][Next]_vars

(* A caller of _calculate_relevance_score with one article.  The whole
   body is inside the try block, so no exception reaches the caller. *)
InitScore ==
    /\ articles \in {<<a>> : a \in ScorePool}
    /\ is_list = TRUE
    /\ pc = "idle"
    /\ op = "none"
    /\ arg = <<>>
    /\ filtered_articles = articles
    /\ raised = FALSE
    /\ score = 0
    /\ StoreFresh

calculate_relevance_score_call ==
    /\ op = "none"
    /\ \E i \in DOMAIN articles :
          /\ arg' = <<articles[i]>>
          /\ score' = calculate_relevance_score(articles[i])
    /\ op' = "_calculate_relevance_score"
    /\ raised' = FALSE
    /\ UNCHANGED <<articles, pc, filtered_articles, is_list, store_vars, encoder_vars, run_vars>>

NextScore == calculate_relevance_score_call

SpecScore == InitScore /\ [][NextScore]_vars

(* The process that uses the store. *)
InitStore ==
    /\ articles = <<>>
    /\ is_list = TRUE
    /\ pc = "idle"
    /\ op = "none"
    /\ arg = <<>>
    /\ filtered_articles = <<>>
    /\ raised = FALSE
    /\ score = 0
    /\ StoreFresh

(* VectorStore.__init__: an empty index, loaded when both files exist. *)
vectorstore_init ==
    /\ ops < MaxOps
    /\ LET empty == [index |-> EmptyIndex, metadata |-> EmptyMetadata,
                     current_id |-> 0]
           st == IF index_file.exists /\ metadata_file.exists
                 THEN Load(empty, index_file, metadata_file) ELSE empty
       IN  /\ index' = st.index
           /\ metadata' = st.metadata
           /\ current_id' = st.current_id
    /\ sop' = "init"
    /\ sarg' = <<>>
    /\ query' = NoQuery
    /\ results' = <<>>
    /\ ops' = ops + 1
    /\ UNCHANGED <<index_file, metadata_file, issued, filter_vars, encoder_vars, run_vars>>

(* VectorStore.add_articles: the loop, then build and save unless an
   exception ended the try block; the handler logs and returns. *)
add_articles(batch) ==
    LET looped == AddLoop([index |-> index, metadata |-> metadata,
                           current_id |-> current_id, failed |-> FALSE],
                          batch)
        saved == Save([index |-> [looped.index EXCEPT !.built = TRUE],
                       metadata |-> looped.metadata,
                       index_file |-> index_file,
                       metadata_file |-> metadata_file])
    IN  /\ sarg' = batch
        /\ issued' = issued \cup
              {[id |-> key.id, entry |-> looped.metadata[key]] :
                 key \in DOMAIN looped.metadata \ DOMAIN metadata}
        /\ metadata' = looped.metadata
        /\ current_id' = looped.current_id
        /\ IF looped.failed \/ BuildRaises(looped.index)
           THEN /\ index' = looped.index
                /\ UNCHANGED <<index_file, metadata_file>>
           ELSE /\ index' = saved.index
                /\ index_file' = saved.index_file
                /\ metadata_file' = saved.metadata_file
        /\ sop' = "add_articles"
        /\ query' = NoQuery
        /\ results' = <<>>
        /\ ops' = ops + 1

add_articles_call ==
    /\ ops < MaxOps
    /\ \E batch \in StoreBatches : add_articles(batch)
    /\ UNCHANGED <<filter_vars, encoder_vars, run_vars>>

search_call ==
    /\ ops < MaxOps
    /\ \E q \in Queries :
          /\ query' = q
          /\ results' = search(index, metadata, q)
    /\ sop' = "search"
    /\ sarg' = <<>>
    /\ ops' = ops + 1
    /\ UNCHANGED <<index, metadata, current_id, index_file, metadata_file,
                   issued, filter_vars, encoder_vars, run_vars>>

save_call ==
    /\ ops < MaxOps
    /\ LET saved == Save([index |-> index, metadata |-> metadata,
                          index_file |-> index_file,
                          metadata_file |-> metadata_file])
       IN  /\ index' = saved.index
           /\ index_file' = saved.index_file
           /\ metadata_file' = saved.metadata_file
    /\ sop' = "save"
    /\ sarg' = <<>>
    /\ query' = NoQuery
    /\ results' = <<>>
    /\ ops' = ops + 1
    /\ UNCHANGED <<metadata, current_id, issued, filter_vars, encoder_vars, run_vars>>

load_call ==
    /\ ops < MaxOps
    /\ LET st == Load([index |-> index, metadata |-> metadata,
                       current_id |-> current_id], index_file, metadata_file)
       IN  /\ index' = st.index
           /\ metadata' = st.metadata
           /\ current_id' = st.current_id
    /\ sop' = "load"
    /\ sarg' = <<>>
    /\ query' = NoQuery
    /\ results' = <<>>
    /\ ops' = ops + 1
    /\ UNCHANGED <<index_file, metadata_file, issued, filter_vars, encoder_vars, run_vars>>

(* clear without the removal of the metadata file. *)
clear_call_keeping_metadata_file ==
    /\ ops < MaxOps
    /\ index' = EmptyIndex
    /\ metadata' = EmptyMetadata
    /\ current_id' = 0
    /\ index_file' = NoIndexFile
    /\ sop' = "clear"
    /\ sarg' = <<>>
    /\ query' = NoQuery
    /\ results' = <<>>
    /\ ops' = ops + 1
    /\ UNCHANGED <<metadata_file, issued, filter_vars, encoder_vars, run_vars>>

(* VectorStore.clear *)
clear_call ==
    /\ ops < MaxOps
    /\ index' = EmptyIndex
    /\ metadata' = EmptyMetadata
    /\ current_id' = 0
    /\ index_file' = NoIndexFile
    /\ metadata_file' = NoMetadataFile
    /\ sop' = "clear"
    /\ sarg' = <<>>
    /\ query' = NoQuery
    /\ results' = <<>>
    /\ ops' = ops + 1
    /\ UNCHANGED <<issued, filter_vars, encoder_vars, run_vars>>

(* One of the two files is damaged outside the process (truncated,
   overwritten): the failure the handler of load is written for. *)
file_damaged ==
    /\ ops < MaxOps
    /\ \/ /\ index_file.exists /\ index_file.ok
          /\ index_file' = [index_file EXCEPT !.ok = FALSE]
          /\ UNCHANGED metadata_file
       \/ /\ metadata_file.exists /\ metadata_file.ok
          /\ metadata_file' = [metadata_file EXCEPT !.ok = FALSE]
          /\ UNCHANGED index_file
    /\ sop' = "damage"
    /\ sarg' = <<>>
    /\ query' = NoQuery
    /\ results' = <<>>
    /\ ops' = ops + 1
    /\ UNCHANGED <<index, metadata, current_id, issued, filter_vars, encoder_vars, run_vars>>

NextStore ==
    \/ vectorstore_init
    \/ add_articles_call
    \/ search_call
    \/ save_call
    \/ load_call
    \/ clear_call
    \/ file_damaged

SpecStore == InitStore /\ [][NextStore]_vars

(* A caller of the encoder's two similarity methods, beside an idle filter
   and a fresh store. *)
InitEncoder == InitStore

compute_similarity_call ==
    /\ eop = "none"
    /\ \E embedding1 \in Embeddings, embedding2 \in Embeddings :
          /\ eargs' = [NoArguments EXCEPT !.embedding1 = embedding1,
                                          !.embedding2 = embedding2]
          /\ similarity' = compute_similarity(embedding1, embedding2)
    /\ eop' = "compute_similarity"
    /\ UNCHANGED <<similar, filter_vars, store_vars, run_vars>>

find_similar_articles_call ==
    /\ eop = "none"
    /\ \E query_embedding \in Embeddings,
          candidates \in SeqsUpTo(CandidatePool, MaxCandidates),
          top_k \in {1, 2, default_top_k} :
          /\ eargs' = [NoArguments EXCEPT !.embedding1 = query_embedding,
                                          !.articles = candidates,
                                          !.top_k = top_k]
          /\ similar' = find_similar_articles(query_embedding, candidates, top_k)
    /\ eop' = "find_similar_articles"
    /\ UNCHANGED <<similarity, filter_vars, store_vars, run_vars>>

NextEncoder ==
    \/ compute_similarity_call
    \/ find_similar_articles_call

SpecEncoder == InitEncoder /\ [][NextEncoder]_vars

----------------------------------------------------------------------------
(* NewsletterPipeline.run, steps 3 and 4 (src/src/main.py), and the
   sequence of test_newsletter_generation (src/tests/test_pipeline.py).
   stage is the last step made, dimension the length of the vectors the
   embedding model gives. *)

(* TextEncoder.encode_article: a missing 'title' or 'content' raises a
   KeyError and the article is returned as it came. *)
encode_article(a) ==
    IF a.title.k = "absent" \/ a.content.k = "absent" THEN a
    ELSE [a EXCEPT !.embedding = TRUE]

(* TextEncoder.encode_articles keeps the articles that have an embedding. *)
encode_articles(as) ==
    SelectSeq([i \in DOMAIN as |-> encode_article(as[i])],
              LAMBDA a : a.embedding)

(* An encoded article as add_articles reads it. *)
StoreView(a, dim) ==
    [title |-> a.title, url |-> a.url,
     content |-> IF a.content.k = "absent" THEN AbsentKey ELSE Str("text"),
     published_date |-> IF a.published_date.k = "absent" THEN AbsentKey
                        ELSE Str("date"),
     source |-> AbsentKey,
     embedding |-> IF a.embedding THEN Vec(dim, 0) ELSE NoEmbedding]

(* The store of a process started over the files an earlier run left:
   VectorStore.__init__ has loaded them. *)
StoreRestored ==
    LET earlier == AddLoop([index |-> EmptyIndex, metadata |-> EmptyMetadata,
                            current_id |-> 0, failed |-> FALSE],
                           <<StoreArticle(Str("AI Breakthrough 2024"),
                                          Str("https://a.example/1"),
                                          Vec(vector_dimension, 0))>>)
        saved == Save([index |-> [earlier.index EXCEPT !.built = TRUE],
                       metadata |-> earlier.metadata,
                       index_file |-> NoIndexFile,
                       metadata_file |-> NoMetadataFile])
        loaded == Load([index |-> EmptyIndex, metadata |-> EmptyMetadata,
                        current_id |-> 0],
                       saved.index_file, saved.metadata_file)
    IN  /\ index = loaded.index
        /\ metadata = loaded.metadata
        /\ current_id = loaded.current_id
        /\ index_file = saved.index_file
        /\ metadata_file = saved.metadata_file
        /\ sop = "init"
        /\ sarg = <<>>
        /\ query = NoQuery
        /\ results = <<>>
        /\ ops = 0
        /\ issued = {}
        /\ EncoderIdle
        /\ RunIdle

(* The pipeline holds the parsed articles; its store is new or restored. *)
InitRun ==
    /\ articles \in RunBatches
    /\ is_list = TRUE
    /\ pc = "idle"
    /\ op = "none"
    /\ arg = <<>>
    /\ filtered_articles = articles
    /\ raised = FALSE
    /\ score = 0
    /\ (StoreFresh \/ StoreRestored)

(* encoded_articles = self.encoder.encode_articles(parsed_articles) *)
encode_articles_call ==
    /\ stage = "none"
    /\ stage' = "encoded"
    /\ \E dim \in {vector_dimension, 2 * vector_dimension} : dimension' = dim
    /\ articles' = encode_articles(articles)
    /\ filtered_articles' = encode_articles(articles)
    /\ UNCHANGED <<pc, op, arg, is_list, raised, score, summarized_articles,
                   newsletter, store_vars, encoder_vars>>

(* add_articles without its handler: an exception of the index ends the
   run. *)
run_add_articles_propagating ==
    /\ stage = "encoded"
    /\ LET batch == [i \in DOMAIN articles |-> StoreView(articles[i], dimension)]
           looped == AddLoop([index |-> index, metadata |-> metadata,
                              current_id |-> current_id, failed |-> FALSE],
                             batch)
       IN  /\ add_articles(batch)
           /\ stage' = IF looped.failed \/ BuildRaises(looped.index)
                       THEN "failed" ELSE "added"
    /\ UNCHANGED <<dimension, summarized_articles, newsletter, filter_vars,
                   encoder_vars>>

(* self.vectorstore.add_articles(encoded_articles): it returns, whatever
   happened inside. *)
run_add_articles ==
    /\ stage = "encoded"
    /\ add_articles([i \in DOMAIN articles |-> StoreView(articles[i], dimension)])
    /\ stage' = "added"
    /\ UNCHANGED <<dimension, summarized_articles, newsletter, filter_vars,
                   encoder_vars>>

(* filtered_articles = self.filter.filter_articles(encoded_articles): the
   call and the stages filter_articles runs. *)
run_filter_articles ==
    \/ filter_articles_begin
    \/ pc # "idle" /\ filter_by_date_call
    \/ pc # "idle" /\ filter_by_relevance_call
    \/ pc # "idle" /\ filter_duplicates_call
    \/ pc # "idle" /\ limit_articles_call

NextRun ==
    \/ encode_articles_call
    \/ run_add_articles
    \/ stage = "added" /\ run_filter_articles

SpecRun == InitRun /\ [][NextRun]_vars

(* SummarizerAgent.summarize_articles: an article gets a summary when it
   has a title and a content and the model answers; the others are
   dropped. *)
summarize_articles_call ==
    /\ stage = "encoded"
    /\ pc = "returned"
    /\ stage' = "summarized"
    /\ \E answered \in SUBSET DOMAIN filtered_articles :
          summarized_articles' =
             [i \in 1..Cardinality(answered) |->
                filtered_articles[
                   CHOOSE j \in answered :
                      Cardinality({k \in answered : k <= j}) = i]]
    /\ UNCHANGED <<dimension, newsletter, filter_vars, store_vars, encoder_vars>>

(* DraftAgent.create_newsletter: the draft chains have their own handlers,
   so the newsletter has its metadata and a content. *)
create_newsletter_call ==
    /\ stage = "summarized"
    /\ stage' = "drafted"
    /\ newsletter' = [content |-> TRUE, metadata |-> TRUE,
                      article_count |-> Len(summarized_articles)]
    /\ UNCHANGED <<dimension, summarized_articles, filter_vars, store_vars,
                   encoder_vars>>

(* test_newsletter_generation: encode_articles, filter_articles,
   summarize_articles, create_newsletter. *)
InitTest ==
    /\ articles \in RunBatches
    /\ is_list = TRUE
    /\ pc = "idle"
    /\ op = "none"
    /\ arg = <<>>
    /\ filtered_articles = articles
    /\ raised = FALSE
    /\ score = 0
    /\ StoreFresh

NextTest ==
    \/ encode_articles_call
    \/ stage = "encoded" /\ run_filter_articles
    \/ summarize_articles_call
    \/ create_newsletter_call

SpecTest == InitTest /\ [][NextTest]_vars

----------------------------------------------------------------------------
(* Vocabulary of the properties *)

InSeq(x, s) == \E i \in DOMAIN s : s[i] = x

(* The article as it was before filter_by_relevance attached a score. *)
Unscored(a) == [a EXCEPT !.scored = FALSE, !.relevance_score = 0]

HasTitle(a) == a.title.k = "str" /\ a.title.v # ""

(* The two duplicate tests of filter_duplicates, on two articles with
   string titles. *)
Collide(a, b) ==
    \/ lower_of[a.title.v] = lower_of[b.title.v]
    \/ ExceedsDuplicateThreshold(
           similarity_of[lower_of[a.title.v]][lower_of[b.title.v]])

(* s is t with some elements left out. *)
RECURSIVE IsSubsequence(_, _)
IsSubsequence(s, t) ==
    IF s = <<>> THEN TRUE
    ELSE IF t = <<>> THEN FALSE
    ELSE IF Head(s) = Head(t) THEN IsSubsequence(Tail(s), Tail(t))
    ELSE IsSubsequence(s, Tail(t))

(* published_date is missing, unparsable or older than the window. *)
Stale(a) ==
    ~ (/\ a.published_date.k \in {"naive", "aware"}
       /\ a.published_date.age <= max_age_days * 24)

Returned == pc = "returned"

----------------------------------------------------------------------------
(* C1: no article whose published_date is missing, unparsable or older than
   the 7-day window is in the output of filter_by_date, nor in the output
   of filter_articles. *)
C1_NoStaleArticlePasses ==
    /\ op = "filter_by_date" =>
         \A i \in DOMAIN filtered_articles : ~ Stale(filtered_articles[i])
    /\ Returned =>
         \A i \in DOMAIN filtered_articles : ~ Stale(filtered_articles[i])

----------------------------------------------------------------------------
(* The data a stage reads is defective: a date that is malformed or of the
   wrong type; a title or content of the wrong type or a missing
   embedding; a title that is missing or of the wrong type. *)
DateDefective(a) == a.published_date.k \in {"malformed", "illtyped"}

ScoreDefective(a) ==
    \/ a.title.k = "none"
    \/ a.content.k = "none"
    \/ a.published_date.k = "illtyped"
    \/ ~ a.embedding

TitleDefective(a) == a.title.k \in {"absent", "none"}

(* C2: in filter_by_date, filter_by_relevance and filter_duplicates the
   defective articles are excluded and the result is the one the stage
   gives for the batch without them. *)
C2_DefectiveArticleIsolated ==
    /\ op = "filter_by_date" =>
         filtered_articles =
           filter_by_date(SelectSeq(arg, LAMBDA a : ~ DateDefective(a)))
    /\ op = "filter_by_relevance" =>
         filtered_articles =
           filter_by_relevance(SelectSeq(arg, LAMBDA a : ~ ScoreDefective(a)))
    /\ op = "filter_duplicates" =>
         filtered_articles =
           filter_duplicates(SelectSeq(arg, LAMBDA a : ~ TitleDefective(a)))

----------------------------------------------------------------------------
(* The score the four terms give an article with string title and content
   whose date is age hours old. *)
ScoreForAge(a) ==
    Min(100, keyword_score_of[lower_of[a.title.v]] + LengthScore(a.content)
               + TechnicalScore(a.content)
               + (IF a.published_date.age \div 24 <= 2 THEN 30
                  ELSE IF a.published_date.age \div 24 <= 5 THEN 20 ELSE 0))

(* C3: an article dated with a 'Z' suffix is kept by filter_by_date exactly
   when it is within the window, and is scored with its keyword, length,
   technical and recency terms, so that filter_by_relevance keeps it with
   that score when it reaches the threshold. *)
C3_ZuluDateHandledLikeAnyDate ==
    /\ op = "filter_by_date" =>
         \A i \in DOMAIN arg :
            arg[i].published_date.k = "aware" =>
              (InSeq(arg[i], filtered_articles)
                 <=> arg[i].published_date.age <= max_age_days * 24)
    /\ op = "filter_by_relevance" =>
         \A i \in DOMAIN arg :
            (/\ arg[i].published_date.k = "aware"
             /\ arg[i].embedding
             /\ arg[i].title.k = "str" /\ arg[i].content.k = "str"
             /\ ScoreForAge(arg[i]) >= relevance_threshold)
            => InSeq([arg[i] EXCEPT !.scored = TRUE,
                                    !.relevance_score = ScoreForAge(arg[i])],
                     filtered_articles)

----------------------------------------------------------------------------
(* C4: filter_articles returns at most max_articles articles and each of
   them carries a relevance_score. *)
C4_AtMostMaxArticlesEachScored ==
    Returned =>
      /\ Len(filtered_articles) <= max_articles
      /\ \A i \in DOMAIN filtered_articles : filtered_articles[i].scored

(* filter_articles has returned a list it had to cut. *)
C4_Witness ==
    /\ Returned
    /\ Len(arg) > max_articles
    /\ Len(filtered_articles) = max_articles

----------------------------------------------------------------------------
(* No two articles of s are duplicates of each other. *)
NoTwoCollide(s) ==
    \A i, j \in DOMAIN s : i < j => ~ Collide(s[i], s[j])

(* C5: filter_articles runs age filter, relevance filter, duplicate
   suppression and truncation in that order, each on the whole output of
   the stage before; its result is the first min(max_articles, n) of the n
   articles left after duplicate suppression, and holds neither a
   duplicate nor an article below the threshold. *)
C5_StagesInOrderOnWholeOutput ==
    /\ pc = "by_relevance" => op = "filter_by_date" /\ arg = articles
    /\ pc = "duplicates" =>
         /\ op = "filter_by_relevance"
         /\ arg = filter_by_date(articles)
    /\ pc = "limit" =>
         /\ op = "filter_duplicates"
         /\ arg = filter_by_relevance(filter_by_date(articles))
    /\ Returned =>
         LET left == filter_duplicates(
                         filter_by_relevance(filter_by_date(articles)))
         IN  /\ op = "limit_articles"
             /\ arg = left
             /\ Len(filtered_articles) = Min(max_articles, Len(left))
             /\ filtered_articles = SubSeq(left, 1, Len(filtered_articles))
             /\ NoTwoCollide(filtered_articles)
             /\ \A i \in DOMAIN filtered_articles :
                   filtered_articles[i].relevance_score >= relevance_threshold

(* filter_articles has returned max_articles articles of a batch in which
   the relevance filter left more than max_articles, a duplicate among the
   first max_articles of them. *)
C5_Witness ==
    /\ Returned
    /\ Len(filtered_articles) = max_articles
    /\ Len(arg) > max_articles
    /\ LET relevant == filter_by_relevance(filter_by_date(articles))
       IN  ~ NoTwoCollide(SubSeq(relevant, 1, max_articles))

----------------------------------------------------------------------------
(* The batch the scenario is about: every article is dated within the
   window, embedded and titled, and no two titles are duplicates. *)
RecentEmbeddedDistinct(s) ==
    /\ \A i \in DOMAIN s :
          /\ ~ Stale(s[i])
          /\ s[i].embedding
          /\ HasTitle(s[i])
    /\ NoTwoCollide(s)

(* The articles of s that score at least the threshold. *)
Eligible(s) ==
    {i \in DOMAIN s : calculate_relevance_score(s[i]) >= relevance_threshold}

(* C6: for a batch of recent, embedded articles with mutually
   non-duplicate titles, filter_articles returns min(max_articles, number
   of articles scoring at least the threshold) of these articles, each
   with its score, in descending score order, and no article it leaves out
   scores more than one it returns. *)
C6_TopScoringInDescendingOrder ==
    (Returned /\ RecentEmbeddedDistinct(articles)) =>
      /\ Len(filtered_articles) =
           Min(max_articles, Cardinality(Eligible(articles)))
      /\ \A k \in DOMAIN filtered_articles :
            \E i \in Eligible(articles) :
               /\ Unscored(filtered_articles[k]) = articles[i]
               /\ filtered_articles[k].relevance_score =
                    calculate_relevance_score(articles[i])
      /\ \A k, l \in DOMAIN filtered_articles :
            k < l => filtered_articles[k].relevance_score
                       >= filtered_articles[l].relevance_score
      /\ \A i \in Eligible(articles) :
            \/ \E k \in DOMAIN filtered_articles :
                  Unscored(filtered_articles[k]) = articles[i]
            \/ \A k \in DOMAIN filtered_articles :
                  filtered_articles[k].relevance_score
                    >= calculate_relevance_score(articles[i])

(* Such a batch with more than max_articles eligible articles, of which a
   lower-scoring one came first in the batch and was left out. *)
C6_Witness ==
    /\ Returned
    /\ RecentEmbeddedDistinct(articles)
    /\ Cardinality(Eligible(articles)) > max_articles
    /\ Len(filtered_articles) = max_articles
    /\ \E i \in Eligible(articles) :
          /\ \A k \in DOMAIN filtered_articles :
                Unscored(filtered_articles[k]) # articles[i]
          /\ \E j \in Eligible(articles) :
                /\ i < j
                /\ calculate_relevance_score(articles[j])
                     > calculate_relevance_score(articles[i])

----------------------------------------------------------------------------
(* The article at position j of s is dropped by the loop of
   filter_duplicates: the loop body leaves the accepted list as it was. *)
DroppedAt(s, j) ==
    LET before == duplicate_loop(SubSeq(s, 1, j - 1))
    IN  DuplicateStep(before, s[j]) = before

(* C7: in filter_articles, an article dropped by duplicate suppression
   collided with an article retained before it, and every such article has
   a relevance_score at least as high as the dropped one's. *)
C7_RetainedDuplicateScoresAtLeast ==
    (pc = "limit" /\ op = "filter_duplicates") =>
      \A j \in DOMAIN arg :
         (HasTitle(arg[j]) /\ DroppedAt(arg, j)) =>
            /\ \E i \in 1..(j - 1) :
                  ~ DroppedAt(arg, i) /\ Collide(arg[i], arg[j])
            /\ \A i \in 1..(j - 1) :
                  (~ DroppedAt(arg, i) /\ Collide(arg[i], arg[j]))
                    => /\ InSeq(arg[i], filtered_articles)
                       /\ arg[i].relevance_score >= arg[j].relevance_score

(* Duplicate suppression inside filter_articles dropped an article that
   came before its higher-scoring duplicate in the batch. *)
C7_Witness ==
    /\ pc = "limit" /\ op = "filter_duplicates"
    /\ Len(articles) = 2
    /\ Len(filtered_articles) = 1
    /\ filtered_articles[1].relevance_score
         > calculate_relevance_score(articles[1])
    /\ Unscored(filtered_articles[1]) = articles[2]

----------------------------------------------------------------------------
(* A title without case and without the punctuation attached to its
   words. *)
RECURSIVE StripPunctuation(_)
StripPunctuation(t) ==
    IF t = "" THEN ""
    ELSE (IF SubSeq(t, 1, 1) \in {"!", "?", ".", ","} THEN ""
          ELSE SubSeq(t, 1, 1)) \o StripPunctuation(SubSeq(t, 2, Len(t)))

normalized_of == [t \in TitleStrings |-> StripPunctuation(lower(t))]

(* C8: of two articles whose titles differ only in letter case and in
   punctuation attached to a word, filter_duplicates retains only the
   first. *)
C8_CaseAndPunctuationAreDuplicates ==
    (op = "filter_duplicates"
       /\ \A i \in DOMAIN arg : arg[i].title.k = "str") =>
      \A i, j \in DOMAIN filtered_articles :
         i < j => normalized_of[filtered_articles[i].title.v]
                    # normalized_of[filtered_articles[j].title.v]

----------------------------------------------------------------------------
(* C9: filter_duplicates is idempotent: called on its own result it
   returns that result. *)
C9_FilterDuplicatesIdempotent ==
    [][(pc = "idle" /\ op = "filter_duplicates" /\ op' = "filter_duplicates")
         => filtered_articles' = filtered_articles]_vars

(* filter_duplicates has been called on the result of a call that had
   removed articles. *)
C9_Witness ==
    /\ pc = "idle" /\ op = "filter_duplicates"
    /\ arg = filtered_articles
    /\ Len(arg) >= 2
    /\ Len(arg) < Len(articles)

----------------------------------------------------------------------------
(* C10: filter_duplicates returns a subsequence of its argument; an
   article with a non-empty title that collides with no article before it
   is retained (so is the first article with a non-empty title), and an
   article that is not retained has an empty title or collides with a
   retained article before it. *)
C10_SubsequenceKeepingFirstOccurrences ==
    op = "filter_duplicates" =>
      /\ IsSubsequence(filtered_articles, arg)
      /\ \A j \in DOMAIN arg :
            (/\ HasTitle(arg[j])
             /\ \A i \in 1..(j - 1) :
                   HasTitle(arg[i]) => ~ Collide(arg[i], arg[j]))
            => InSeq(arg[j], filtered_articles)
      /\ \A j \in DOMAIN arg :
            ~ InSeq(arg[j], filtered_articles) =>
               \/ ~ HasTitle(arg[j])
               \/ \E i \in 1..(j - 1) :
                     /\ HasTitle(arg[i])
                     /\ Collide(arg[i], arg[j])
                     /\ InSeq(arg[i], filtered_articles)

(* filter_duplicates dropped an article between two it retained. *)
C10_Witness ==
    /\ op = "filter_duplicates"
    /\ \E i, j, k \in DOMAIN arg :
          /\ i < j /\ j < k
          /\ HasTitle(arg[j])
          /\ ~ InSeq(arg[j], filtered_articles)
          /\ InSeq(arg[i], filtered_articles)
          /\ InSeq(arg[k], filtered_articles)

----------------------------------------------------------------------------
(* The word sets of two titles share more than 0.8 of their union. *)
JaccardAbove(a, b) ==
    LET r == similarity_of[lower_of[a.title.v]][lower_of[b.title.v]]
    IN  10 * r[1] > 8 * r[2]

JaccardExactly(a, b) ==
    LET r == similarity_of[lower_of[a.title.v]][lower_of[b.title.v]]
    IN  10 * r[1] = 8 * r[2]

(* The positions of s[1..j] whose articles are accepted when a candidate
   is dropped exactly for an empty title, a lower-cased title equal to an
   accepted one, or a similarity above 0.8 with an accepted one. *)
RECURSIVE AcceptedUpTo(_, _)
AcceptedUpTo(s, j) ==
    IF j = 0 THEN {}
    ELSE LET before == AcceptedUpTo(s, j - 1)
             dropped ==
                \/ lower_of[s[j].title.v] = ""
                \/ \E i \in before :
                      lower_of[s[i].title.v] = lower_of[s[j].title.v]
                \/ \E i \in before : JaccardAbove(s[i], s[j])
         IN  IF dropped THEN before ELSE before \cup {j}

(* The elements of s at the positions of P, in order. *)
RECURSIVE Restrict(_, _, _)
Restrict(s, P, j) ==
    IF j = 0 THEN <<>>
    ELSE IF j \in P THEN Append(Restrict(s, P, j - 1), s[j])
    ELSE Restrict(s, P, j - 1)

AllTitlesAreStrings(s) == \A i \in DOMAIN s : s[i].title.k # "none"

(* C11: filter_duplicates (on titles that are strings or missing) drops a
   candidate exactly when its title is empty, or its lower-cased title
   equals an accepted title, or its word-set similarity with an accepted
   title is above 0.8; at exactly 0.8 it is kept, and titles of dropped
   articles are not compared with. *)
C11_DropsExactlyDuplicatesOfAccepted ==
    (op = "filter_duplicates" /\ AllTitlesAreStrings(arg)) =>
      filtered_articles = Restrict(arg, AcceptedUpTo(arg, Len(arg)), Len(arg))

(* filter_duplicates kept a candidate at exactly 0.8 of an accepted title,
   dropped the next for a similarity above 0.8, and kept a later one that
   is above 0.8 of the dropped title only. *)
C11_Witness ==
    /\ op = "filter_duplicates"
    /\ Len(arg) = 4 /\ Len(filtered_articles) = 3
    /\ filtered_articles = <<arg[1], arg[2], arg[4]>>
    /\ JaccardExactly(arg[1], arg[2])
    /\ JaccardAbove(arg[2], arg[3])
    /\ JaccardAbove(arg[3], arg[4])
    /\ ~ JaccardAbove(arg[1], arg[4]) /\ ~ JaccardAbove(arg[2], arg[4])

----------------------------------------------------------------------------
(* The terms of the score of an article whose title and content are strings
   or missing, counted from the title and the content themselves. *)
TextTerms(a) ==
    20 * Cardinality({i \in DOMAIN keywords :
                        Contains(keywords[i], lower(a.title.v))})
      + (IF a.content.words >= 500 /\ a.content.words <= 2000 THEN 30 ELSE 0)
      + (IF a.content.tech THEN 20 ELSE 0)

TextIsString(a) == a.title.k # "none" /\ a.content.k # "none"

Dated(a) == a.published_date.k \in {"naive", "aware"}

ScoreCalled == op = "_calculate_relevance_score"

(* C12: _calculate_relevance_score returns a value in [0.0, 1.0] for any
   article, also with an empty, missing or ill-typed title, content or
   published_date, and raises nothing. *)
C12_ScoreInUnitInterval ==
    ScoreCalled => (score \in 0..100 /\ ~ raised)

(* The terms of the scored article add up to more than 1.0 and the score
   returned is 1.0. *)
C12_Witness ==
    /\ ScoreCalled
    /\ TextIsString(arg[1])
    /\ arg[1].published_date = Naive(0)
    /\ TextTerms(arg[1]) + 30 > 100
    /\ score = 100

(* C13: the score is min(1.0, keyword term + length term + technical term
   + recency bonus), the recency bonus (by whole days of age) being 0 when
   published_date is missing or cannot be parsed, the other terms still
   counted. *)
C13_ScoreIsClampedSumOfTerms ==
    (ScoreCalled /\ TextIsString(arg[1])) =>
      LET d == arg[1].published_date
          bonus == IF ~ Dated(arg[1]) THEN 0
                   ELSE IF d.age \div 24 <= 2 THEN 30
                   ELSE IF d.age \div 24 <= 5 THEN 20 ELSE 0
      IN  score = Min(100, TextTerms(arg[1]) + bonus)

(* C14: the recency bonus is 0.3 for an age of at most 2 days, 0.2 for an
   age of more than 2 and at most 5 days, 0 for an older article (seen on
   articles whose other terms leave room for it below 1.0). *)
C14_RecencyBonusByAge ==
    (ScoreCalled /\ TextIsString(arg[1]) /\ Dated(arg[1])
       /\ TextTerms(arg[1]) <= 70) =>
      LET age == arg[1].published_date.age
      IN  score - TextTerms(arg[1]) =
            (IF age <= 2 * 24 THEN 30 ELSE IF age <= 5 * 24 THEN 20 ELSE 0)

(* The articles of s that filter_by_relevance accepts with score v, each
   carrying v as its relevance_score. *)
AcceptedWithScore(s, v) ==
    LET chosen == SelectSeq(s, LAMBDA a :
                      a.embedding /\ calculate_relevance_score(a) = v)
    IN  [i \in DOMAIN chosen |->
           [chosen[i] EXCEPT !.scored = TRUE, !.relevance_score = v]]

(* C15: filter_by_relevance returns exactly the articles that have an
   embedding and score at least relevance_threshold, each carrying that
   score, by non-increasing score, articles of equal score in their input
   order. *)
C15_AcceptedScoredStablyDescending ==
    (op = "filter_by_relevance" /\ is_list) =>
      /\ \A i \in DOMAIN filtered_articles :
            /\ filtered_articles[i].scored
            /\ filtered_articles[i].relevance_score >= relevance_threshold
            /\ filtered_articles[i].relevance_score <= 100
      /\ \A i, j \in DOMAIN filtered_articles :
            i < j => filtered_articles[i].relevance_score
                       >= filtered_articles[j].relevance_score
      /\ \A v \in {calculate_relevance_score(arg[i]) : i \in DOMAIN arg} :
            v >= relevance_threshold =>
              SelectSeq(filtered_articles, LAMBDA a : a.relevance_score = v)
                = AcceptedWithScore(arg, v)
      /\ \A i \in DOMAIN filtered_articles : \E j \in DOMAIN arg :
            filtered_articles[i].relevance_score
              = calculate_relevance_score(arg[j])

(* filter_by_relevance dropped an article, moved one ahead of a lower score
   and returned two different articles of equal score. *)
C15_Witness ==
    /\ op = "filter_by_relevance" /\ is_list
    /\ Len(filtered_articles) >= 3
    /\ Len(filtered_articles) < Len(arg)
    /\ \E i, j \in DOMAIN filtered_articles :
          /\ i < j
          /\ filtered_articles[i].relevance_score
               = filtered_articles[j].relevance_score
          /\ filtered_articles[i].title # filtered_articles[j].title
    /\ \E i, j \in DOMAIN arg :
          /\ i < j /\ arg[i].embedding /\ arg[j].embedding
          /\ calculate_relevance_score(arg[i]) >= relevance_threshold
          /\ calculate_relevance_score(arg[j]) > calculate_relevance_score(arg[i])

----------------------------------------------------------------------------
(* C16: no exception reaches the caller of filter_articles or of one of
   its stages: a stage called with a value it cannot process returns that
   value, and filter_articles returns an empty list when a stage inside it
   raises. *)
C16_NoExceptionReachesTheCaller ==
    /\ ~ raised
    /\ (op \in {"filter_by_date", "filter_by_relevance", "filter_duplicates",
                "limit_articles"} /\ ~ is_list) =>
          filtered_articles = arg
    /\ pc = "returned" => is_list

----------------------------------------------------------------------------
(* Properties of the store *)

HasEmbedding(a) == a.embedding.k # "absent"

RightDimension(a) == HasEmbedding(a) /\ a.embedding.len = vector_dimension

WrongDimension(a) == HasEmbedding(a) /\ a.embedding.len # vector_dimension

(* The articles of a batch that a store whose index is idx accepts: those
   with an embedding, up to the first one the index refuses. *)
AcceptedOf(idx, batch) ==
    LET embedded == SelectSeq(batch, HasEmbedding)
        refused == {i \in DOMAIN embedded :
                      idx.loaded \/ WrongDimension(embedded[i])}
        first == IF refused = {} THEN Len(embedded) + 1
                 ELSE CHOOSE i \in refused : \A j \in refused : i <= j
    IN  SubSeq(embedded, 1, first - 1)

AddArticlesStep == sop' = "add_articles" /\ ops' = ops + 1

(* The table with the keys the instance that saved it had. *)
IntKeyed(table) ==
    [key \in {IntKey(k.id) : k \in DOMAIN table} |-> table[StrKey(key.id)]]

(* The instance got its index and its metadata from the persisted pair. *)
Restored ==
    /\ index.loaded
    /\ DOMAIN metadata # {}
    /\ \A key \in DOMAIN metadata : key.k = "str"

(* C17: an instance that loaded the persisted pair returns for a query
   what the instance that saved the pair returned (the search over the
   same index with the metadata under the keys it was saved from), and its
   current_id is 1 + the largest id. *)
C17_RestoredInstanceSearchesAsSaved ==
    (sop = "search" /\ Restored) =>
      /\ results = search(index, IntKeyed(metadata), query)
      /\ current_id = MaxId(metadata) + 1

(* C18: add_articles given an article whose embedding has the wrong
   dimension records no id, vector or metadata for it, does not advance
   current_id for it and lets no exception escape. *)
C18_WrongDimensionEntryNotRecorded ==
    [][(AddArticlesStep /\ \E i \in DOMAIN sarg' : WrongDimension(sarg'[i])) =>
         LET accepted == AcceptedOf(index, sarg')
         IN  /\ current_id' = current_id + Len(accepted)
             /\ Len(index'.items) = Len(index.items) + Len(accepted)
             /\ DOMAIN metadata' =
                  DOMAIN metadata
                    \cup {IntKey(current_id + r - 1) : r \in DOMAIN accepted}
             /\ \A i \in DOMAIN sarg' : WrongDimension(sarg'[i]) =>
                   /\ \A key \in DOMAIN metadata' :
                         metadata'[key] # MetadataOf(sarg'[i])
                   /\ \A j \in DOMAIN index'.items :
                         index'.items[j] # sarg'[i].embedding
             /\ ~ raised']_vars

(* add_articles was given an article of the right dimension followed by
   one of the wrong dimension: only the first is recorded. *)
C18_Witness ==
    /\ sop = "add_articles"
    /\ Len(sarg) = 2
    /\ RightDimension(sarg[1]) /\ WrongDimension(sarg[2])
    /\ current_id = 1
    /\ DOMAIN metadata = {IntKey(0)}
    /\ metadata[IntKey(0)] = MetadataOf(sarg[1])
    /\ ~ raised

(* C19: add_articles skips the articles without 'embedding' without
   failing, gives the accepted articles consecutive ids from current_id
   on in input order, and advances current_id by their number. *)
C19_AcceptedGetConsecutiveIds ==
    [][AddArticlesStep =>
         LET accepted == AcceptedOf(index, sarg')
         IN  /\ current_id' = current_id + Len(accepted)
             /\ DOMAIN metadata' =
                  DOMAIN metadata
                    \cup {IntKey(current_id + r - 1) : r \in DOMAIN accepted}
             /\ \A key \in DOMAIN metadata : metadata'[key] = metadata[key]
             /\ \A r \in DOMAIN accepted :
                   /\ metadata'[IntKey(current_id + r - 1)]
                        = MetadataOf(accepted[r])
                   /\ index'.items[current_id + r] = accepted[r].embedding
             /\ ~ raised']_vars

(* add_articles was given an article without embedding followed by one
   with, on a store whose current_id was 1: the second got id 1. *)
C19_Witness ==
    /\ sop = "add_articles"
    /\ Len(sarg) = 2
    /\ ~ HasEmbedding(sarg[1]) /\ RightDimension(sarg[2])
    /\ current_id = 2
    /\ DOMAIN metadata = {IntKey(0), IntKey(1)}
    /\ metadata[IntKey(1)] = MetadataOf(sarg[2])
    /\ index.items[2] = sarg[2].embedding
    /\ ~ raised

(* C20: when add_articles returns, every article of the batch with an
   embedding of the index's dimension is recorded, and every entry
   recorded so far is in the built index, in both files and can be
   returned by search. *)
C20_EveryEntryBuiltPersistedSearchable ==
    sop = "add_articles" =>
      /\ \A i \in DOMAIN sarg : RightDimension(sarg[i]) =>
            \E key \in DOMAIN metadata : metadata[key] = MetadataOf(sarg[i])
      /\ \A key \in DOMAIN metadata :
            /\ index.built /\ key.id < Len(index.items)
            /\ index_file.exists /\ key.id < Len(index_file.items)
            /\ metadata_file.exists
            /\ StrKey(key.id) \in DOMAIN metadata_file.entries
            /\ \E q \in Queries :
                  \E r \in DOMAIN search(index, metadata, q) :
                     search(index, metadata, q)[r].metadata = metadata[key]

----------------------------------------------------------------------------
(* C21: over add_articles, save, load, clear and restarts no id is given
   to two different entries (an id is not used again after clear), and
   after a load of a non-empty table current_id is the largest id + 1. *)
C21_NoIdIssuedTwice ==
    /\ \A p, q \in issued : p.id = q.id => p.entry = q.entry
    /\ (sop \in {"init", "load"} /\ DOMAIN metadata # {}) =>
          current_id = MaxId(metadata) + 1

(* The store holds nothing. *)
StoreEmpty ==
    /\ index.items = <<>>
    /\ DOMAIN metadata = {}
    /\ current_id = 0

(* C22: a store holds index and metadata as a matching pair: after its
   construction it holds the content of both files, or, when a file is
   absent or cannot be loaded, nothing at all. *)
C22_IndexAndMetadataLoadedAsPair ==
    sop = "init" =>
      \/ StoreEmpty
      \/ /\ index_file.exists /\ index_file.ok
         /\ metadata_file.exists /\ metadata_file.ok
         /\ index.items = index_file.items
         /\ metadata = metadata_file.entries

(* C23: clear raises nothing and leaves the store empty with
   current_id = 0 and neither file on disk, so that a store constructed
   next starts empty. *)
C23_ClearLeavesNothing ==
    /\ [](sop = "clear" =>
            /\ StoreEmpty
            /\ index = EmptyIndex
            /\ ~ index_file.exists /\ ~ metadata_file.exists
            /\ ~ raised)
    /\ [][(sop = "clear" /\ sop' = "init") => (StoreEmpty /\ index = EmptyIndex)']_vars

(* A store that had added and saved two entries was cleared. *)
C23_Witness ==
    /\ sop = "clear"
    /\ ops = 2
    /\ Cardinality(issued) = 2
    /\ ~ index_file.exists /\ ~ metadata_file.exists
    /\ StoreEmpty

(* C24: search raises nothing and returns at most k records, in the
   nearest-first order of the index, each the stored metadata of a
   returned id with similarity = 1 - distance/2; ids without metadata are
   left out; metadata and current_id are not changed. *)
C24_SearchReturnsNearestWithMetadata ==
    /\ [](sop = "search" =>
            LET nns == IF query.vec.len = vector_dimension
                       THEN get_nns_by_vector(index, query.vec, query.k)
                       ELSE <<>>
                known == SelectSeq(nns, LAMBDA n : IntKey(n.id) \in DOMAIN metadata)
            IN  /\ ~ raised
                /\ Len(results) <= query.k
                /\ Len(results) = Len(known)
                /\ \A i \in DOMAIN results :
                      /\ results[i].metadata = metadata[IntKey(known[i].id)]
                      /\ results[i].similarity = 1000 - known[i].dist \div 2
                /\ \A i, j \in DOMAIN results :
                      i < j => results[i].similarity >= results[j].similarity)
    /\ [][sop' = "search" /\ ops' = ops + 1 =>
            metadata' = metadata /\ current_id' = current_id]_vars

(* search returned two records, the nearer one first. *)
C24_Witness ==
    /\ sop = "search"
    /\ query.k = default_k
    /\ Len(results) = 2
    /\ results[1].similarity = 1000
    /\ results[2].similarity < 1000
    /\ results[1].metadata # results[2].metadata

(* C29: when add_articles returns, every article of the batch with an
   embedding of the index's dimension has an entry, the metadata file
   holds the metadata in memory, and the ids with metadata are the ids
   below current_id. *)
C29_AddedAndPersistedOnReturn ==
    sop = "add_articles" =>
      /\ \A i \in DOMAIN sarg : RightDimension(sarg[i]) =>
            \E p \in issued : p.entry = MetadataOf(sarg[i])
      /\ \/ DOMAIN metadata = {}
         \/ /\ metadata_file.exists
            /\ metadata_file.entries = JsonDump(metadata)
      /\ {key.id : key \in DOMAIN metadata} = 0..(current_id - 1)

----------------------------------------------------------------------------
IsZero(vector) == vector.dir = -1

(* C25: for a zero vector z and any vector b, compute_similarity(z, b) and
   compute_similarity(b, z) return 0.0 and raise nothing. *)
C25_ZeroVectorGivesZero ==
    (eop = "compute_similarity"
       /\ (IsZero(eargs.embedding1) \/ IsZero(eargs.embedding2))) =>
      (similarity = Float(0) /\ ~ raised)

(* The similarity of a candidate to the query as a number, a zero vector
   counting 0.0. *)
SimilarityTo(query_embedding, c) ==
    LET s == compute_similarity(query_embedding, c.embedding)
    IN  IF s.nan THEN 0 ELSE s.v

(* The candidates with an embedding sorted by non-increasing similarity,
   those of equal similarity in input order: c goes after every candidate
   at least as similar. *)
RECURSIVE StablyDescending(_, _)
StablyDescending(query_embedding, cs) ==
    IF cs = <<>> THEN <<>>
    ELSE LET before == StablyDescending(query_embedding,
                                        SubSeq(cs, 1, Len(cs) - 1))
             c == cs[Len(cs)]
             n == Cardinality({i \in DOMAIN before :
                     SimilarityTo(query_embedding, before[i])
                       >= SimilarityTo(query_embedding, c)})
         IN  SubSeq(before, 1, n) \o <<c>> \o SubSeq(before, n + 1, Len(before))

(* C26: find_similar_articles scores every candidate with an embedding and
   returns at most top_k of them, by non-increasing similarity to the
   query, candidates of equal similarity in input order. *)
C26_TopKByStableDescendingSimilarity ==
    eop = "find_similar_articles" =>
      LET embedded == SelectSeq(eargs.articles,
                                LAMBDA c : c.embedding.k # "absent")
          ordered == StablyDescending(eargs.embedding1, embedded)
      IN  /\ Len(similar) <= eargs.top_k
          /\ similar = SubSeq(ordered, 1, Min(eargs.top_k, Len(ordered)))

----------------------------------------------------------------------------
HasUrl(a) == a.url.k = "str" /\ a.url.v # ""

(* C28: filter_duplicates skips an article whose URL has already been seen
   on an accepted article, as it skips one whose title has been seen: no
   two articles of the result are at the same URL. *)
C28_SeenUrlIsSkipped ==
    (op = "filter_duplicates" /\ is_list) =>
      \A i, j \in DOMAIN filtered_articles :
         (i < j /\ HasUrl(filtered_articles[i]) /\ HasUrl(filtered_articles[j]))
           => filtered_articles[i].url # filtered_articles[j].url

----------------------------------------------------------------------------
OnTopic(a) ==
    /\ a.title.k = "str"
    /\ \/ Contains("ai", lower_of[a.title.v])
       \/ Contains("product management", lower_of[a.title.v])
    /\ a.published_date.k \in {"naive", "aware"}
    /\ a.content.k = "str"

(* C27: encode_articles, filter_articles, summarize_articles and
   create_newsletter run in sequence on a non-empty batch of on-topic
   articles, each with a published_date: filter_articles selects at least
   one article, and when every selected article gets its summary the
   newsletter has a content and metadata with an article_count above 0. *)
C27_OnTopicBatchYieldsArticles ==
    (Len(articles) > 0 /\ \A i \in DOMAIN articles : OnTopic(articles[i])) =>
      /\ (stage = "encoded" /\ pc = "returned") => Len(filtered_articles) > 0
      /\ (stage = "drafted"
            /\ Len(summarized_articles) = Len(filtered_articles)) =>
           /\ newsletter.content
           /\ newsletter.metadata
           /\ newsletter.article_count > 0

(* filter_articles as one function of its argument. *)
Selected(as) ==
    limit_articles(filter_duplicates(filter_by_relevance(filter_by_date(as))))

(* C30: in run the batch is given to add_articles before filter_articles
   is called; add_articles returns whether it succeeded or not and leaves
   the batch as it was, and filter_articles returns what it returns for
   that batch. *)
C30_AppendBeforeSelectionAndIndependent ==
    /\ [][stage = "encoded" =>
            /\ stage' = "added"
            /\ sop' = "add_articles"
            /\ articles' = articles
            /\ filtered_articles' = articles
            /\ pc' = "idle"
            /\ ~ raised']_vars
    /\ [][(pc = "idle" /\ pc' # "idle") => stage = "added"]_vars
    /\ []((stage = "added" /\ pc = "returned") =>
            /\ filtered_articles = Selected(articles)
            /\ ~ raised)

(* A run whose append failed at the first article (the vectors are not of
   the index's length) and whose selection is not empty. *)
C30_Witness ==
    /\ stage = "added"
    /\ pc = "returned"
    /\ dimension # vector_dimension
    /\ DOMAIN metadata = {}
    /\ index.items = <<>>
    /\ Len(filtered_articles) > 0

====
